---- MODULE Spec2Model ----
(***************************************************************************)
(* A model of main.py: the tofu plan / Ollama fix retry loop (main), the   *)
(* marker framing of filesets (send_to_ollama, parse_fixed_files), the     *)
(* fileset writer (write_fixed_files), the workspace initializer and the   *)
(* planner adapter (run_tofu) with its two OS pipes.                       *)
(*                                                                         *)
(* A Python str is a sequence of one-character strings. A Python dict is a *)
(* record [keys, vals]: keys is the insertion order, vals the mapping.     *)
(* An Optional value is <<>> (None) or <<v>>.                              *)
(***************************************************************************)
EXTENDS Integers, Sequences, FiniteSets, TLC

VARIABLES
    pc,               \* position of main: the statement it executes next
    max_retries,      \* args.max_retries
    attempt,          \* main's loop counter
    exit_code,        \* last return code of run_tofu
    tofu_output,      \* last accumulated output returned by run_tofu
    files_content,    \* dict returned by read_all_files
    fixed_files_text, \* accumulated model reply / input of parse_fixed_files
    fixed_files,      \* dict returned by parse_fixed_files
    fs,               \* the file system: resolved path -> content
    out_exists,       \* whether the output folder exists
    exit_status,      \* process exit status, meaningful when pc = "exited"
    events,           \* history of the external calls main has made
    rd,               \* position of run_tofu: the statement it executes next
    child_prog,       \* the writes the planner process has still to do
    child_exited,     \* whether the planner process has exited
    stdout_pipe,      \* lines written to the stdout pipe and not yet read
    stderr_pipe,      \* lines written to the stderr pipe and not yet read
    written,          \* history of the lines the planner has written, in order
    accumulated_output, \* run_tofu's accumulated_output, as a list of lines
    console           \* the lines run_tofu has printed

ctlVars == <<pc, max_retries, attempt, exit_code, tofu_output, files_content,
             fixed_files_text, fixed_files, fs, out_exists, exit_status, events>>

pipeVars == <<rd, child_prog, child_exited, stdout_pipe, stderr_pipe, written,
              accumulated_output, console>>

vars == <<ctlVars, pipeVars>>

----------------------------------------------------------------------------
(* Bounds of the model *)

MaxRetriesBound == 3
MaxLines == 5
MaxFiles == 2
MaxWrites == 4
PipeCap == 2

----------------------------------------------------------------------------
(* Python str and dict *)

Range(s) == {s[i] : i \in 1..Len(s)}

None == <<>>
Some(v) == <<v>>

EmptyDict == [keys |-> <<>>, vals |-> [k \in {} |-> <<>>]]

DictSet(d, k, v) ==
    [keys |-> IF k \in Range(d.keys) THEN d.keys ELSE Append(d.keys, k),
     vals |-> [p \in DOMAIN d.vals \cup {k} |-> IF p = k THEN v ELSE d.vals[p]]]

\* str.startswith
StartsWith(line, prefix) ==
    /\ Len(line) >= Len(prefix)
    /\ SubSeq(line, 1, Len(prefix)) = prefix

\* Python whitespace among the characters of the model
IsSpace(c) == c \in {" ", "\t", "\n", "\r", "\f"}

\* The line boundaries of str.splitlines among the characters of the model:
\* "\n", "\r", "\r\n" and "\f" (the remaining boundaries of splitlines, such as
\* the vertical tab and the separators 0x1c-0x1e, behave as "\f" does).
IsLineBreak(c) == c \in {"\n", "\r", "\f"}

RECURSIVE LStrip(_)
LStrip(s) == IF s # <<>> /\ IsSpace(Head(s)) THEN LStrip(Tail(s)) ELSE s

RECURSIVE RStrip(_)
RStrip(s) ==
    IF s # <<>> /\ IsSpace(s[Len(s)]) THEN RStrip(SubSeq(s, 1, Len(s) - 1)) ELSE s

\* str.strip
Strip(s) == RStrip(LStrip(s))

\* str.splitlines. LineEnds(s) are the positions at which a boundary ends
\* ("\r\n" is one boundary, ending at its "\n"); a boundary ends the current
\* line (even an empty one), and what follows the last boundary is a line only
\* if it is not empty.
LineEnds(s) ==
    {i \in 1..Len(s) :
        /\ IsLineBreak(s[i])
        /\ ~(s[i] = "\r" /\ i < Len(s) /\ s[i + 1] = "\n")}

\* The k-th smallest position of B, 0 for k = 0
Nth(B, k) == IF k = 0 THEN 0 ELSE CHOOSE b \in B : Cardinality({x \in B : x <= b}) = k

\* The text between two boundaries, without the "\r" of a closing "\r\n"
LineBetween(s, from, to) ==
    IF to <= Len(s) /\ s[to] = "\n" /\ to - 1 >= from /\ s[to - 1] = "\r"
    THEN SubSeq(s, from, to - 2)
    ELSE SubSeq(s, from, to - 1)

splitlines(s) ==
    LET B == LineEnds(s)
        n == Cardinality(B)
        last == Nth(B, n)
    IN  [k \in 1..(IF last < Len(s) THEN n + 1 ELSE n) |->
            IF k <= n THEN LineBetween(s, Nth(B, k - 1) + 1, Nth(B, k))
            ELSE SubSeq(s, last + 1, Len(s))]

\* "\n".join(lines)
RECURSIVE JoinNL(_)
JoinNL(lines) ==
    IF lines = <<>> THEN <<>>
    ELSE IF Len(lines) = 1 THEN lines[1]
    ELSE lines[1] \o <<"\n">> \o JoinNL(Tail(lines))

----------------------------------------------------------------------------
(* The marker framing *)

StartMarker == <<"[", "S", "T", "A", "R", "T", " ", "F", "I", "L", "E", ":", " ">>
EndMarker == <<"[", "E", "N", "D", " ", "F", "I", "L", "E", "]">>

\* send_to_ollama, the loop that appends one block per file to the prompt
RECURSIVE EncodeBlocks(_, _)
EncodeBlocks(d, i) ==
    IF i > Len(d.keys) THEN <<>>
    ELSE StartMarker \o d.keys[i] \o <<"]", "\n">> \o d.vals[d.keys[i]]
         \o <<"\n">> \o EndMarker \o <<"\n", "\n">> \o EncodeBlocks(d, i + 1)

EncodeBody(files) == EncodeBlocks(files, 1)

\* line[len("[START FILE: "):-1]
PathOfStartLine(line) == SubSeq(line, Len(StartMarker) + 1, Len(line) - 1)

\* A parser bug: the lines of the file left open are kept
OnStartLine_KeepContent(st, line) ==
    [st EXCEPT !.current_file = Some(PathOfStartLine(line))]

\* parse_fixed_files, the branch of a "[START FILE: " line
OnStartLine(st, line) ==
    [st EXCEPT !.current_file = Some(PathOfStartLine(line)),
               !.current_content = <<>>]

\* `if current_file:` is false for None and for the empty string
Truthy(current_file) == current_file # None /\ current_file[1] # <<>>

\* parse_fixed_files, the branch of an "[END FILE]" line
OnEndLine(st) ==
    IF Truthy(st.current_file)
    THEN [st EXCEPT !.fixed_files =
                        DictSet(st.fixed_files, st.current_file[1],
                                JoinNL(st.current_content)),
                    !.current_file = None]
    ELSE st

\* parse_fixed_files, the branch of any other line
OnOtherLine(st, line) ==
    IF st.current_file # None
    THEN [st EXCEPT !.current_content = Append(st.current_content, line)]
    ELSE st

\* parse_fixed_files, one iteration of the loop over the lines
ParseLine(st, line) ==
    IF StartsWith(line, StartMarker) THEN OnStartLine(st, line)
    ELSE IF Strip(line) = EndMarker THEN OnEndLine(st)
    ELSE OnOtherLine(st, line)

ParseInit == [fixed_files |-> EmptyDict, current_file |-> None, current_content |-> <<>>]

RECURSIVE ParseLines(_, _, _)
ParseLines(st, lines, i) ==
    IF i > Len(lines) THEN st ELSE ParseLines(ParseLine(st, lines[i]), lines, i + 1)

\* A parser bug: the file left open at the end of the text is committed
ParseResult_Flush(st) ==
    IF st.current_file # None
    THEN DictSet(st.fixed_files, st.current_file[1], JoinNL(st.current_content))
    ELSE st.fixed_files

\* what parse_fixed_files returns: the dict, with nothing flushed at the end
ParseResult(st) == st.fixed_files

parse_fixed_files(text) == ParseResult(ParseLines(ParseInit, splitlines(text), 1))

----------------------------------------------------------------------------
(* Paths and the file system *)

\* str.split("/") as the OS reads a path: its segments
RECURSIVE SegmentsFrom(_, _, _, _)
SegmentsFrom(s, i, cur, acc) ==
    IF i > Len(s) THEN Append(acc, cur)
    ELSE IF s[i] = "/" THEN SegmentsFrom(s, i + 1, <<>>, Append(acc, cur))
    ELSE SegmentsFrom(s, i + 1, Append(cur, s[i]), acc)

Segments(path) == SegmentsFrom(path, 1, <<>>, <<>>)

IsAbsolute(path) == path # <<>> /\ path[1] = "/"

\* os.path.join(folder, filename)
PathJoin(folder, filename) ==
    IF IsAbsolute(filename) THEN filename
    ELSE IF folder = <<>> \/ folder[Len(folder)] = "/" THEN folder \o filename
    ELSE folder \o <<"/">> \o filename

\* The directory the process runs in, the --input and the --output-folder
Cwd == << <<"w">> >>
input_folder == <<"i">>
output_folder == <<"o">>

\* How the OS resolves a path: "" and "." segments are skipped, ".." climbs
RECURSIVE ResolveFrom(_, _, _)
ResolveFrom(segs, i, at) ==
    IF i > Len(segs) THEN at
    ELSE IF segs[i] = <<>> \/ segs[i] = <<".">> THEN ResolveFrom(segs, i + 1, at)
    ELSE IF segs[i] = <<".", ".">>
         THEN ResolveFrom(segs, i + 1,
                          IF at = <<>> THEN at ELSE SubSeq(at, 1, Len(at) - 1))
    ELSE ResolveFrom(segs, i + 1, Append(at, segs[i]))

Resolve(path) == ResolveFrom(Segments(path), 1, IF IsAbsolute(path) THEN <<>> ELSE Cwd)

IsUnder(rp, dir) == Len(rp) > Len(dir) /\ SubSeq(rp, 1, Len(dir)) = dir

RECURSIVE JoinSlash(_)
JoinSlash(segs) ==
    IF segs = <<>> THEN <<>>
    ELSE IF Len(segs) = 1 THEN segs[1]
    ELSE segs[1] \o <<"/">> \o JoinSlash(Tail(segs))

\* os.path.relpath(filepath, folder) for a file under folder
RelPath(rp, dir) == JoinSlash(SubSeq(rp, Len(dir) + 1, Len(rp)))

\* What the file system holds at the path of a directory without entries
Directory == <<"<dir>">>

\* The entries below dir, and the regular files among them
EntriesUnder(disk, dir) == {rp \in DOMAIN disk : IsUnder(rp, dir)}
FilesUnder(disk, dir) == {rp \in EntriesUnder(disk, dir) : disk[rp] # Directory}

\* A listing bug: only regular files count as entries
HasEntries_FilesOnly(disk, dir) == FilesUnder(disk, dir) # {}

\* any(os.scandir(folder))
HasEntries(disk, dir) == EntriesUnder(disk, dir) # {}

\* The orders in which os.walk may list a set of files
Orders(S) == {q \in [1..Cardinality(S) -> S] : Range(q) = S}

\* read_all_files(folder) when os.walk lists the files in the order `order`
ReadFiles(disk, dir, order) ==
    [keys |-> [i \in 1..Len(order) |-> RelPath(order[i], dir)],
     vals |-> [k \in {RelPath(rp, dir) : rp \in Range(order)} |->
                  disk[CHOOSE rp \in Range(order) : RelPath(rp, dir) = k]]]

\* A write bug: a file that exists already keeps its content
WriteFile_KeepOld(disk, path, content) ==
    [rp \in DOMAIN disk \cup {Resolve(path)} |->
        IF rp \in DOMAIN disk THEN disk[rp] ELSE content]

\* open(output_path, 'w').write(content)
WriteFile(disk, path, content) ==
    [rp \in DOMAIN disk \cup {Resolve(path)} |->
        IF rp = Resolve(path) THEN content ELSE disk[rp]]

\* write_fixed_files: the first n files of the dict written, in dict order
RECURSIVE WriteFirst(_, _, _, _)
WriteFirst(disk, folder, d, n) ==
    IF n = 0 THEN disk
    ELSE WriteFile(WriteFirst(disk, folder, d, n - 1),
                   PathJoin(folder, d.keys[n]), d.vals[d.keys[n]])

\* copytree(src, dst, dirs_exist_ok=True) of the files in `copied`
CopyFiles(disk, src, dst, copied) ==
    [rp \in DOMAIN disk \cup {dst \o SubSeq(q, Len(src) + 1, Len(q)) : q \in copied} |->
        IF \E q \in copied : rp = dst \o SubSeq(q, Len(src) + 1, Len(q))
        THEN disk[CHOOSE q \in copied : rp = dst \o SubSeq(q, Len(src) + 1, Len(q))]
        ELSE disk[rp]]

----------------------------------------------------------------------------
(* The environment of one run *)

TofuExitCodes == {0, 1, 2}
TofuOutputs == {<<"E", "\n">>}

Block(path, content) ==
    StartMarker \o path \o <<"]", "\n">> \o content \o <<"\n">> \o EndMarker

\* The texts the model backend may stream back
ModelReplies ==
    { <<>>,
      <<" ", "\n">>,
      <<"n", "o">>,
      Block(<<"a">>, <<"y">>),
      Block(<<"b">>, <<"y">>),
      Block(<<".", ".", "/", "e">>, <<"y">>),
      Block(<<"/", "e">>, <<"y">>),
      Block(<<".", "/", "a">>, <<"v">>),
      Block(<<"a">>, <<"y">>) \o <<"\n">> \o Block(<<".", "/", "a">>, <<"v">>) }

InputDir == Resolve(input_folder)
OutputDir == Resolve(output_folder)

\* The input tree, and the states the output folder may be in at start
InputTree == [rp \in {InputDir \o << <<"a">> >>} |-> <<"x">>]
LeftOver == [rp \in {InputDir \o << <<"a">> >>, OutputDir \o << <<"a">> >>} |->
                IF IsUnder(rp, OutputDir) THEN <<"z">> ELSE <<"x">>]

Count(e) == Cardinality({i \in 1..Len(events) : events[i] = e})

----------------------------------------------------------------------------
(* main *)

\* A branch bug: the success test reads the wrong detailed exit code
PlanOk_Two(code) == code = 2

\* main, `if exit_code == 0:`
PlanOk(code) == code = 0

\* A counting bug: the attempt is not counted
NextAttempt_Stuck(a) == a

\* main, `attempt += 1`
NextAttempt(a) == a + 1

Exit(status, how) ==
    /\ pc' = "exited"
    /\ exit_status' = status
    /\ events' = Append(events, how)

\* run_tofu is not running
PipeIdle ==
    /\ rd = "idle"
    /\ child_prog = <<>>
    /\ child_exited = FALSE
    /\ stdout_pipe = <<>>
    /\ stderr_pipe = <<>>
    /\ written = <<>>
    /\ accumulated_output = <<>>
    /\ console = <<>>

InitCtl ==
    /\ pc = "validate"
    /\ max_retries \in -1..MaxRetriesBound
    /\ attempt = 0
    /\ exit_code = 0
    /\ tofu_output = <<>>
    /\ files_content = EmptyDict
    /\ fixed_files_text = <<>>
    /\ fixed_files = EmptyDict
    /\ \/ out_exists = FALSE /\ fs = InputTree
       \/ out_exists = TRUE /\ fs \in {InputTree, LeftOver}
    /\ exit_status = 0
    /\ events = <<>>
    /\ PipeIdle

\* main, the two checks before the workspace is initialized
Validate ==
    /\ pc = "validate"
    /\ \E tf_bin_isfile \in BOOLEAN, input_isdir \in BOOLEAN :
          IF tf_bin_isfile /\ input_isdir
          THEN pc' = "initialize" /\ UNCHANGED <<exit_status, events>>
          ELSE Exit(1, "Fatal")
    /\ UNCHANGED <<max_retries, attempt, exit_code, tofu_output, files_content,
                   fixed_files_text, fixed_files, fs, out_exists>>
    /\ UNCHANGED pipeVars

\* initialize_output_folder, called at `at` and returning to `next`: the
\* folder is created if missing; if it has no entry the input tree is copied
\* into it, or copytree fails after copying a part of it and the call exits
InitializeOutputFolderAt(at, next) ==
    /\ pc = at
    /\ out_exists' = TRUE
    /\ IF ~HasEntries(fs, OutputDir)
       THEN \/ /\ fs' = CopyFiles(fs, InputDir, OutputDir, EntriesUnder(fs, InputDir))
               /\ pc' = next
               /\ UNCHANGED <<exit_status, events>>
            \/ \E copied \in SUBSET EntriesUnder(fs, InputDir) :
                  /\ copied # EntriesUnder(fs, InputDir)
                  /\ fs' = CopyFiles(fs, InputDir, OutputDir, copied)
                  /\ Exit(1, "Fatal")
       ELSE /\ pc' = next
            /\ UNCHANGED <<fs, exit_status, events>>
    /\ UNCHANGED <<max_retries, attempt, exit_code, tofu_output, files_content,
                   fixed_files_text, fixed_files>>
    /\ UNCHANGED pipeVars

\* main, the call of initialize_output_folder
InitializeOutputFolder == InitializeOutputFolderAt("initialize", "loop")

\* main, `while attempt < max_retries:` and the return of main after the loop
LoopTest ==
    /\ pc = "loop"
    /\ IF attempt < max_retries
       THEN pc' = "run_tofu" /\ UNCHANGED <<exit_status, events>>
       ELSE Exit(0, "Returned")
    /\ UNCHANGED <<max_retries, attempt, exit_code, tofu_output, files_content,
                   fixed_files_text, fixed_files, fs, out_exists>>
    /\ UNCHANGED pipeVars

\* main, the call of run_tofu: it returns a code and the output, or exits
RunTofu ==
    /\ pc = "run_tofu"
    /\ \/ \E code \in TofuExitCodes, out \in TofuOutputs :
            /\ exit_code' = code
            /\ tofu_output' = out
            /\ pc' = "branch"
            /\ events' = Append(events, IF code = 0 THEN "plan_ok" ELSE "plan_failed")
            /\ UNCHANGED exit_status
       \/ /\ pc' = "exited"
          /\ exit_status' = 1
          /\ events' = events \o <<"plan_error", "Fatal">>
          /\ UNCHANGED <<exit_code, tofu_output>>
    /\ UNCHANGED <<max_retries, attempt, files_content, fixed_files_text,
                   fixed_files, fs, out_exists>>
    /\ UNCHANGED pipeVars

\* main, `if exit_code == 0: ... break`, after which main returns
PlanSucceeded ==
    /\ pc = "branch"
    /\ PlanOk(exit_code)
    /\ Exit(0, "Succeeded")
    /\ UNCHANGED <<max_retries, attempt, exit_code, tofu_output, files_content,
                   fixed_files_text, fixed_files, fs, out_exists>>
    /\ UNCHANGED pipeVars

\* main, the call of read_all_files
ReadAllFiles ==
    /\ pc = "branch"
    /\ ~PlanOk(exit_code)
    /\ \/ \E order \in Orders(FilesUnder(fs, OutputDir)) :
            /\ files_content' = ReadFiles(fs, OutputDir, order)
            /\ pc' = "send"
            /\ events' = Append(events, "read")
            /\ UNCHANGED exit_status
       \/ /\ pc' = "exited"
          /\ exit_status' = 1
          /\ events' = events \o <<"read", "Fatal">>
          /\ UNCHANGED files_content
    /\ UNCHANGED <<max_retries, attempt, exit_code, tofu_output, fixed_files_text,
                   fixed_files, fs, out_exists>>
    /\ UNCHANGED pipeVars

\* A reply bug: the accumulated reply is tested without strip()
IsEmptyReply_NoStrip(text) == text = <<>>

\* send_to_ollama, `if not fixed_files_text.strip():`
IsEmptyReply(text) == Strip(text) = <<>>

\* main, the call of send_to_ollama: the reply is streamed and accumulated
\* from ""; an empty reply or an error of the backend (before its first chunk)
\* exits, any other reply is parsed
SendToOllama ==
    /\ pc = "send"
    /\ \/ \E reply \in ModelReplies :
            /\ fixed_files_text' = reply
            /\ IF IsEmptyReply(reply)
               THEN /\ pc' = "exited"
                    /\ exit_status' = 1
                    /\ events' = events \o <<"model", "Fatal">>
                    /\ UNCHANGED fixed_files
               ELSE /\ fixed_files' = parse_fixed_files(reply)
                    /\ pc' = "write"
                    /\ events' = Append(events, "model")
                    /\ UNCHANGED exit_status
       \/ /\ pc' = "exited"
          /\ exit_status' = 1
          /\ events' = events \o <<"model", "Fatal">>
          /\ fixed_files_text' = <<>>
          /\ UNCHANGED fixed_files
    /\ UNCHANGED <<max_retries, attempt, exit_code, tofu_output, files_content,
                   fs, out_exists>>
    /\ UNCHANGED pipeVars

\* main, the call of write_fixed_files: every file is written in dict order,
\* or the n-th one fails (left as it was, or truncated by open) and exits
WriteFixedFiles ==
    /\ pc = "write"
    /\ \/ /\ fs' = WriteFirst(fs, output_folder, fixed_files, Len(fixed_files.keys))
          /\ pc' = "increment"
          /\ events' = Append(events, "write")
          /\ UNCHANGED exit_status
       \/ \E n \in 1..Len(fixed_files.keys) :
            /\ \/ fs' = WriteFirst(fs, output_folder, fixed_files, n - 1)
               \/ fs' = WriteFile(WriteFirst(fs, output_folder, fixed_files, n - 1),
                                  PathJoin(output_folder, fixed_files.keys[n]), <<>>)
            /\ pc' = "exited"
            /\ exit_status' = 1
            /\ events' = events \o <<"write", "Fatal">>
    /\ UNCHANGED <<max_retries, attempt, exit_code, tofu_output, files_content,
                   fixed_files_text, fixed_files, out_exists>>
    /\ UNCHANGED pipeVars

\* A pacing bug: the wait also happens after the last attempt
NeedsPacing_Inclusive(a, max) == a <= max

\* main, `if attempt < max_retries:` before time.sleep
NeedsPacing(a, max) == a < max

\* main, `attempt += 1` and the test that follows it
Increment ==
    /\ pc = "increment"
    /\ attempt' = NextAttempt(attempt)
    /\ IF NeedsPacing(attempt', max_retries)
       THEN pc' = "sleep" /\ UNCHANGED <<exit_status, events>>
       ELSE Exit(1, "ExhaustedRetries")
    /\ UNCHANGED <<max_retries, exit_code, tofu_output, files_content,
                   fixed_files_text, fixed_files, fs, out_exists>>
    /\ UNCHANGED pipeVars

\* main, time.sleep(sleep_interval)
Sleep ==
    /\ pc = "sleep"
    /\ pc' = "loop"
    /\ events' = Append(events, "sleep")
    /\ UNCHANGED <<max_retries, attempt, exit_code, tofu_output, files_content,
                   fixed_files_text, fixed_files, fs, out_exists, exit_status>>
    /\ UNCHANGED pipeVars

Next ==
    \/ Validate
    \/ InitializeOutputFolder
    \/ LoopTest
    \/ RunTofu
    \/ PlanSucceeded
    \/ ReadAllFiles
    \/ SendToOllama
    \/ WriteFixedFiles
    \/ Increment
    \/ Sleep

Init == InitCtl

Spec == Init /\ [][Next]_vars

----------------------------------------------------------------------------
(* The retry controller *)

PlannerCalls == Count("plan_ok") + Count("plan_failed") + Count("plan_error")
ModelCalls == Count("model")
FixCycles == Count("write")
Last(seq) == seq[Len(seq)]
Exhausted == pc = "exited" /\ Last(events) = "ExhaustedRetries"

\* C1: for a positive max_retries = N, one run invokes the planner at most
\* N + 1 times, calls the model backend at most N times and calls the fileset
\* writer at most N times.
C1_AttemptBound ==
    max_retries > 0 =>
        /\ PlannerCalls <= max_retries + 1
        /\ ModelCalls <= max_retries
        /\ FixCycles <= max_retries

\* A run with N = 2 that used both of its fix cycles
C1_Witness ==
    /\ max_retries = 2
    /\ Exhausted
    /\ ModelCalls = 2
    /\ FixCycles = 2

\* C2: when every planner invocation fails, the planner has been invoked
\* max_retries + 1 times when the controller reaches ExhaustedRetries, and
\* every fileset write is followed by a planner invocation.
C2_LastFilesetPlanned ==
    (Exhausted /\ Count("plan_ok") = 0) =>
        /\ PlannerCalls = max_retries + 1
        /\ \A i \in 1..Len(events) :
              events[i] = "write" =>
                  \E j \in (i + 1)..Len(events) :
                      events[j] \in {"plan_ok", "plan_failed", "plan_error"}

FirstPlanSucceeded == events # <<>> /\ events[1] = "plan_ok"

\* C3: if the first planner invocation returns 0, the run reads no fileset,
\* calls no model, writes no file and does not sleep; it has invoked the
\* planner once and the only way it ends is Succeeded with exit status 0.
C3_EarlySuccess ==
    FirstPlanSucceeded =>
        /\ events \in {<<"plan_ok">>, <<"plan_ok", "Succeeded">>}
        /\ fs \in {CopyFiles(InputTree, InputDir, OutputDir, FilesUnder(InputTree, InputDir)),
                    LeftOver}
        /\ IF pc = "exited" THEN exit_status = 0 /\ Last(events) = "Succeeded"
           ELSE pc = "branch" /\ ENABLED PlanSucceeded /\ ~ENABLED ReadAllFiles

\* A run that ended after a first planner invocation that returned 0
C3_Witness == FirstPlanSucceeded /\ pc = "exited" /\ exit_code = 0

\* C4: the process exits with status 0 only if some planner invocation of
\* the run returned exit code 0, whatever integer --max-retries is.
C4_ExitZeroOnlyOnSuccess ==
    (pc = "exited" /\ exit_status = 0) => Count("plan_ok") >= 1

\* A relative path with no leading "/" and no ".." segment
SafeRelative(path) == ~IsAbsolute(path) /\ <<".", ".">> \notin Range(Segments(path))

\* C8: every path write_fixed_files has written is a relative path with no
\* leading "/" and no ".." segment, and the file written lies inside the
\* output folder.
C8_WritesInsideOutput ==
    pc = "increment" =>
        \A i \in 1..Len(fixed_files.keys) :
            /\ SafeRelative(fixed_files.keys[i])
            /\ IsUnder(Resolve(PathJoin(output_folder, fixed_files.keys[i])), OutputDir)

----------------------------------------------------------------------------
(* parse_fixed_files on bounded inputs *)

CtlIdle ==
    /\ max_retries = 1
    /\ attempt = 0
    /\ exit_code = 0
    /\ tofu_output = <<>>
    /\ fs = InputTree
    /\ out_exists = FALSE
    /\ exit_status = 0
    /\ events = <<>>

\* The lines the replies are made of
ReplyLines ==
    { StartMarker \o <<"a", "]">>,
      StartMarker \o <<"b", "]">>,
      EndMarker,
      <<" ">> \o EndMarker \o <<"\r">>,
      StartMarker \o <<"]">>,
      StartMarker \o <<"a", "b">>,
      <<"x">>,
      <<"y">> }

\* Every text of at most MaxLines of these lines, joined by "\n"
ReplyTexts ==
    {JoinNL(ls) : ls \in UNION {[1..n -> ReplyLines] : n \in 0..MaxLines}}

InitDec ==
    /\ pc = "parse"
    /\ fixed_files_text \in ReplyTexts
    /\ files_content = EmptyDict
    /\ fixed_files = EmptyDict
    /\ CtlIdle
    /\ PipeIdle

\* send_to_ollama, `fixed_files = parse_fixed_files(fixed_files_text)`
Parse ==
    /\ pc = "parse"
    /\ fixed_files' = parse_fixed_files(fixed_files_text)
    /\ pc' = "parsed"
    /\ UNCHANGED <<max_retries, attempt, exit_code, tofu_output, files_content,
                   fixed_files_text, fs, out_exists, exit_status, events>>
    /\ UNCHANGED pipeVars

NextDec == Parse

SpecDec == InitDec /\ [][NextDec]_vars

IsStartLine(line) == StartsWith(line, StartMarker)
IsEndLine(line) == ~IsStartLine(line) /\ Strip(line) = EndMarker

\* lines[i] opens a file that lines[j] closes: no marker line lies between
ClosedBlock(lines, i, j) ==
    /\ i < j
    /\ IsStartLine(lines[i])
    /\ IsEndLine(lines[j])
    /\ \A k \in (i + 1)..(j - 1) : ~IsStartLine(lines[k]) /\ ~IsEndLine(lines[k])

IsDict(d) ==
    /\ DOMAIN d.vals = Range(d.keys)
    /\ \A i, j \in 1..Len(d.keys) : d.keys[i] = d.keys[j] => i = j

ReplyLinesOf(text) == splitlines(text)

\* C6: parse_fixed_files returns a dict for every text, and the empty dict
\* for every text that has no "[START FILE: " line or no "[END FILE]" line
\* (so for every text without marker lines).
C6_DecodeTotal ==
    pc = "parsed" =>
        LET lines == ReplyLinesOf(fixed_files_text) IN
        /\ IsDict(fixed_files)
        /\ ( \/ \A i \in 1..Len(lines) : ~IsStartLine(lines[i])
             \/ \A i \in 1..Len(lines) : ~IsEndLine(lines[i]) )
           => fixed_files = EmptyDict

\* A text of two lines without any marker has been parsed
C6_Witness ==
    /\ pc = "parsed"
    /\ fixed_files_text = <<"x", "\n", "y">>
    /\ fixed_files = EmptyDict

Unterminated == JoinNL(<<StartMarker \o <<"a", "]">>, <<"x">>>>)
NestedOpens ==
    JoinNL(<<StartMarker \o <<"a", "]">>, <<"x">>, StartMarker \o <<"b", "]">>,
             <<"y">>, EndMarker>>)

----------------------------------------------------------------------------
(* The blocks send_to_ollama emits, read back by parse_fixed_files *)

FilePaths == {<<"a">>, <<"b">>, <<"a", "]">>}

FileContents ==
    { <<>>,
      <<"x">>,
      <<"x", "\n">>,
      <<"x", "\n", "y">>,
      <<"x", "\f", "y">>,
      <<" ">> \o EndMarker,
      StartMarker \o <<"q", "]">> }

\* Every dict of at most MaxFiles files, in every insertion order
Filesets ==
    {[keys |-> ks, vals |-> vs] :
        ks \in {q \in UNION {[1..n -> FilePaths] : n \in 0..MaxFiles} :
                   \A i, j \in 1..Len(q) : q[i] = q[j] => i = j},
        vs \in UNION {[S -> FileContents] : S \in SUBSET FilePaths}}

InitRT ==
    /\ pc = "encode"
    /\ files_content \in {d \in Filesets : DOMAIN d.vals = Range(d.keys)}
    /\ fixed_files_text = <<>>
    /\ fixed_files = EmptyDict
    /\ CtlIdle
    /\ PipeIdle

\* send_to_ollama, the blocks appended to the prompt; the text is handed to
\* parse_fixed_files as it is
Encode ==
    /\ pc = "encode"
    /\ fixed_files_text' = EncodeBody(files_content)
    /\ pc' = "parse"
    /\ UNCHANGED <<max_retries, attempt, exit_code, tofu_output, files_content,
                   fixed_files, fs, out_exists, exit_status, events>>
    /\ UNCHANGED pipeVars

NextRT == Encode \/ Parse

SpecRT == InitRT /\ [][NextRT]_vars

\* The lines of a content as the encoder lays them out: split at "\n" alone
NewLines(s) == {i \in 1..Len(s) : s[i] = "\n"}

ContentLines(content) ==
    LET B == NewLines(content)
        n == Cardinality(B)
    IN  [k \in 1..(n + 1) |->
            SubSeq(content, Nth(B, k - 1) + 1,
                   IF k <= n THEN Nth(B, k) - 1 ELSE Len(content))]

\* The filesets the round trip is claimed for
WellFormed(d) ==
    /\ \A i \in 1..Len(d.keys) : "]" \notin Range(d.keys[i])
    /\ \A p \in DOMAIN d.vals :
          \A i \in 1..Len(ContentLines(d.vals[p])) :
              /\ Strip(ContentLines(d.vals[p])[i]) # EndMarker
              /\ ~StartsWith(ContentLines(d.vals[p])[i], StartMarker)

\* C5: parsing the blocks emitted for a fileset whose paths have no "]" and
\* whose content has no line that is "[END FILE]" after trimming or starts
\* with "[START FILE: " returns the same paths with the same content.
C5_RoundTrip ==
    (pc = "parsed" /\ WellFormed(files_content)) =>
        fixed_files.vals = files_content.vals

----------------------------------------------------------------------------
(* run_tofu and the two pipes of the planner process *)

Streams == {"stdout", "stderr"}

\* What a planner process does: a finite sequence of line writes, then exit
Programs == UNION {[1..n -> Streams] : n \in 0..MaxWrites}

InitPipe ==
    /\ rd = "popen"
    /\ child_prog \in Programs
    /\ child_exited = FALSE
    /\ stdout_pipe = <<>>
    /\ stderr_pipe = <<>>
    /\ written = <<>>
    /\ accumulated_output = <<>>
    /\ console = <<>>
    /\ pc = "run_tofu"
    /\ files_content = EmptyDict
    /\ fixed_files_text = <<>>
    /\ fixed_files = EmptyDict
    /\ CtlIdle

\* The line the planner writes next: its stream and its number
NextLine == [stream |-> Head(child_prog), n |-> Len(written) + 1]

\* run_tofu, subprocess.Popen: the process starts, or the call raises and
\* run_tofu exits
Popen ==
    /\ rd = "popen"
    /\ rd' \in {"stdout", "exited"}
    /\ UNCHANGED <<child_prog, child_exited, stdout_pipe, stderr_pipe, written,
                   accumulated_output, console>>
    /\ UNCHANGED ctlVars

\* The planner writes a line to a pipe that has room; it blocks on a full one
ChildWrite ==
    /\ rd \notin {"popen", "exited"}
    /\ ~child_exited
    /\ child_prog # <<>>
    /\ \/ /\ Head(child_prog) = "stdout"
          /\ Len(stdout_pipe) < PipeCap
          /\ stdout_pipe' = Append(stdout_pipe, NextLine)
          /\ UNCHANGED stderr_pipe
       \/ /\ Head(child_prog) = "stderr"
          /\ Len(stderr_pipe) < PipeCap
          /\ stderr_pipe' = Append(stderr_pipe, NextLine)
          /\ UNCHANGED stdout_pipe
    /\ written' = Append(written, NextLine)
    /\ child_prog' = Tail(child_prog)
    /\ UNCHANGED <<rd, child_exited, accumulated_output, console>>
    /\ UNCHANGED ctlVars

\* The planner exits after its last write, which closes its end of both pipes
ChildExit ==
    /\ rd \notin {"popen", "exited"}
    /\ ~child_exited
    /\ child_prog = <<>>
    /\ child_exited' = TRUE
    /\ UNCHANGED <<rd, child_prog, stdout_pipe, stderr_pipe, written,
                   accumulated_output, console>>
    /\ UNCHANGED ctlVars

\* run_tofu, one iteration of the stdout loop: readline returns a line,
\* which is printed and accumulated
ReadStdout ==
    /\ rd = "stdout"
    /\ stdout_pipe # <<>>
    /\ console' = Append(console, Head(stdout_pipe))
    /\ accumulated_output' = Append(accumulated_output, Head(stdout_pipe))
    /\ stdout_pipe' = Tail(stdout_pipe)
    /\ UNCHANGED <<rd, child_prog, child_exited, stderr_pipe, written>>
    /\ UNCHANGED ctlVars

\* run_tofu, the end of the stdout loop: readline returns '' at end of file
StdoutEOF ==
    /\ rd = "stdout"
    /\ stdout_pipe = <<>>
    /\ child_exited
    /\ rd' = "stderr"
    /\ UNCHANGED <<child_prog, child_exited, stdout_pipe, stderr_pipe, written,
                   accumulated_output, console>>
    /\ UNCHANGED ctlVars

\* run_tofu, one iteration of the stderr loop
ReadStderr ==
    /\ rd = "stderr"
    /\ stderr_pipe # <<>>
    /\ console' = Append(console, Head(stderr_pipe))
    /\ accumulated_output' = Append(accumulated_output, Head(stderr_pipe))
    /\ stderr_pipe' = Tail(stderr_pipe)
    /\ UNCHANGED <<rd, child_prog, child_exited, stdout_pipe, written>>
    /\ UNCHANGED ctlVars

\* run_tofu, the end of the stderr loop, the two close calls, process.wait()
\* and the return
StderrEOF ==
    /\ rd = "stderr"
    /\ stderr_pipe = <<>>
    /\ child_exited
    /\ rd' = "returned"
    /\ exit_code' \in TofuExitCodes
    /\ UNCHANGED <<child_prog, child_exited, stdout_pipe, stderr_pipe, written,
                   accumulated_output, console>>
    /\ UNCHANGED <<pc, max_retries, attempt, tofu_output, files_content,
                   fixed_files_text, fixed_files, fs, out_exists, exit_status, events>>

NextPipe ==
    \/ Popen
    \/ ChildWrite
    \/ ChildExit
    \/ ReadStdout
    \/ StdoutEOF
    \/ ReadStderr
    \/ StderrEOF

SpecPipe == InitPipe /\ [][NextPipe]_vars

\* The planner is blocked writing to a full pipe
ChildBlocked ==
    /\ ~child_exited
    /\ child_prog # <<>>
    /\ \/ Head(child_prog) = "stdout" /\ Len(stdout_pipe) = PipeCap
       \/ Head(child_prog) = "stderr" /\ Len(stderr_pipe) = PipeCap

\* run_tofu is blocked in readline on a stream that is empty and still open
ReaderBlocked ==
    \/ rd = "stdout" /\ stdout_pipe = <<>> /\ ~child_exited
    \/ rd = "stderr" /\ stderr_pipe = <<>> /\ ~child_exited

\* C9: no state is reachable in which the planner is blocked writing to one
\* full pipe while run_tofu is blocked reading the other stream.
C9_NoPipeDeadlock == ~(ChildBlocked /\ ReaderBlocked)

\* C10: when run_tofu returns, the accumulated output and the console hold
\* every line the planner wrote exactly once, in the order in which the lines
\* were written across the two streams.
C10_ArrivalOrder ==
    rd = "returned" =>
        /\ accumulated_output = written
        /\ console = written

----------------------------------------------------------------------------
(* The policy of main for replies that carry no file *)

\* main keeps running: every call it makes returns
FairSpec == Spec /\ WF_vars(Next)

\* send_to_ollama has just handled the reply held in fixed_files_text
ReplyHandled ==
    \/ pc = "write"
    \/ /\ pc = "exited"
       /\ Len(events) >= 2
       /\ events[Len(events) - 1] = "model"

\* The reply is not empty and not all whitespace, and decodes to no file
DecodesToNothing ==
    /\ Strip(fixed_files_text) # <<>>
    /\ parse_fixed_files(fixed_files_text) = EmptyDict

\* Every reply without a file, blank or not, aborts the program
PolicyAbort ==
    (ReplyHandled /\ (Strip(fixed_files_text) = <<>> \/ DecodesToNothing)) =>
        pc = "exited"

\* Every reply without a file, blank or not, lets the attempt go on
PolicyContinue ==
    (ReplyHandled /\ (Strip(fixed_files_text) = <<>> \/ DecodesToNothing)) =>
        pc = "write"

\* C11: one policy holds for a blank reply and for a reply that decodes to
\* the empty dict: both abort the program, or both count and continue.
C11_OnePolicy == []PolicyAbort \/ []PolicyContinue

\* C12: a blank reply (empty or all whitespace) makes the step of
\* send_to_ollama exit with status 1 without parsing and without writing, and
\* nothing happens after the exit: no planner run, model call or sleep.
C12_EmptyReplyAborts ==
    /\ [][(pc = "send" /\ Strip(fixed_files_text') = <<>>) =>
            /\ pc' = "exited"
            /\ exit_status' = 1
            /\ fixed_files' = fixed_files
            /\ fs' = fs
            /\ events' = events \o <<"model", "Fatal">>]_vars
    /\ [][pc # "exited"]_vars

\* An all-whitespace reply has been received and the program has exited
C12_Witness ==
    /\ pc = "exited"
    /\ fixed_files_text = <<" ", "\n">>
    /\ Last(events) = "Fatal"

----------------------------------------------------------------------------
(* initialize_output_folder called twice in a row *)

\* Trees of entries, each a pair of a relative path and what it holds
Entry(segs, what) == <<segs, what>>

InputTrees ==
    { {},
      {Entry(<< <<"a">> >>, <<"x">>)},
      {Entry(<< <<"a">> >>, <<"x">>), Entry(<< <<"b">> >>, <<"y">>)},
      {Entry(<< <<"d">>, <<"a">> >>, <<"x">>)},
      {Entry(<< <<"d">> >>, Directory)},
      {Entry(<< <<"a">> >>, <<"x">>), Entry(<< <<"d">> >>, Directory)},
      {Entry(<< <<"b">> >>, <<"y">>), Entry(<< <<"d">>, <<"a">> >>, <<"x">>)} }

OutputTrees ==
    { {},
      {Entry(<< <<"a">> >>, <<"z">>)},
      {Entry(<< <<"a">> >>, <<"x">>)},
      {Entry(<< <<"b">> >>, <<"z">>)},
      {Entry(<< <<"d">> >>, Directory)} }

\* The file system that holds the tree below dir
Mount(tree, dir) ==
    [rp \in {dir \o e[1] : e \in tree} |->
        (CHOOSE e \in tree : dir \o e[1] = rp)[2]]

InitInitz ==
    /\ pc = "initialize"
    /\ \E input \in InputTrees, output \in OutputTrees :
          /\ fs = Mount(input, InputDir) @@ Mount(output, OutputDir)
          /\ out_exists \in (IF output = {} THEN BOOLEAN ELSE {TRUE})
    /\ max_retries = 1
    /\ attempt = 0
    /\ exit_code = 0
    /\ tofu_output = <<>>
    /\ files_content = EmptyDict
    /\ fixed_files_text = <<>>
    /\ fixed_files = EmptyDict
    /\ exit_status = 0
    /\ events = <<>>
    /\ PipeIdle

FirstCall == InitializeOutputFolderAt("initialize", "initialize_again")
SecondCall == InitializeOutputFolderAt("initialize_again", "initialized")

NextInitz == FirstCall \/ SecondCall

SpecInitz == InitInitz /\ [][NextInitz]_vars

\* C13: a second call of initialize_output_folder right after the first
\* leaves the file system as the first call left it, and a call on an output
\* folder that has an entry leaves the file system unchanged.
C13_InitIdempotent ==
    /\ [][pc = "initialize_again" => (fs' = fs /\ out_exists' = out_exists)]_vars
    /\ [][(pc \in {"initialize", "initialize_again"}
              /\ EntriesUnder(fs, OutputDir) # {}) => fs' = fs]_vars

\* Two calls have returned, the first of which copied a file and a directory
C13_Witness ==
    /\ pc = "initialized"
    /\ OutputDir \o << <<"a">> >> \in DOMAIN fs
    /\ OutputDir \o << <<"d">> >> \in DOMAIN fs
    /\ fs[OutputDir \o << <<"a">> >>] = <<"x">>
    /\ fs[OutputDir \o << <<"d">> >>] = Directory

----------------------------------------------------------------------------
(* The two marker lines of parse_fixed_files *)

\* The path and the content of the block that lines[i] opens and lines[j] closes
BlockPath(lines, i) == PathOfStartLine(lines[i])
BlockContent(lines, i, j) == JoinNL(SubSeq(lines, i + 1, j - 1))

\* C14: whatever the path of the open file is, the next "[END FILE]" line
\* commits its lines under that path: every closed block that no later
\* closed block of the same path follows is in the result, with its content.
C14_EndCommits ==
    pc = "parsed" =>
        LET lines == ReplyLinesOf(fixed_files_text) IN
        \A i, j \in 1..Len(lines) :
            ( /\ ClosedBlock(lines, i, j)
              /\ \A i2, j2 \in 1..Len(lines) :
                    (ClosedBlock(lines, i2, j2) /\ i2 > i) =>
                        BlockPath(lines, i2) # BlockPath(lines, i) )
            => /\ BlockPath(lines, i) \in DOMAIN fixed_files.vals
               /\ fixed_files.vals[BlockPath(lines, i)] = BlockContent(lines, i, j)

\* C15: a file of the result was opened by a line that is exactly
\* "[START FILE: " \o path \o "]", with nothing dropped from the path and
\* nothing after it.
C15_ExactStartLine ==
    pc = "parsed" =>
        LET lines == ReplyLinesOf(fixed_files_text) IN
        \A p \in DOMAIN fixed_files.vals :
            \E i, j \in 1..Len(lines) :
                /\ ClosedBlock(lines, i, j)
                /\ lines[i] = StartMarker \o p \o <<"]">>
                /\ fixed_files.vals[p] = BlockContent(lines, i, j)

----------------------------------------------------------------------------
(* The attempt counter and the pacing of main *)

\* C16: in every reachable state 0 <= attempt <= max_retries.
C16_AttemptRange == 0 <= attempt /\ attempt <= max_retries

IsPlan(e) == e \in {"plan_ok", "plan_failed", "plan_error"}

\* events[i] and events[j] are two consecutive planner invocations
ConsecutivePlans(i, j) ==
    /\ i < j
    /\ IsPlan(events[i])
    /\ IsPlan(events[j])
    /\ \A k \in (i + 1)..(j - 1) : ~IsPlan(events[k])

\* C17: between two consecutive planner invocations there are exactly one
\* fix cycle (read, model call, write) and then one sleep; nothing happens
\* before the first planner invocation and nothing but the exit after a
\* successful one; main sleeps only while attempt < max_retries, and at
\* attempt = max_retries it exits with status 1 right after the write.
C17_PacingBetweenAttempts ==
    /\ \A i, j \in 1..Len(events) :
          ConsecutivePlans(i, j) =>
              SubSeq(events, i + 1, j - 1) = <<"read", "model", "write", "sleep">>
    /\ \A i \in 1..Len(events) :
          /\ (events[i] = "sleep" => \E k \in 1..(i - 1) : IsPlan(events[k]))
          /\ (events[i] = "plan_ok" =>
                  SubSeq(events, i + 1, Len(events)) \in {<<>>, <<"Succeeded">>})
    /\ pc = "sleep" => attempt < max_retries
    /\ Exhausted =>
          /\ attempt = max_retries
          /\ exit_status = 1
          /\ events[Len(events) - 1] = "write"

\* A run that paced once between two planner invocations and then ran out
\* of attempts
C17_Witness ==
    /\ Exhausted
    /\ events = <<"plan_failed", "read", "model", "write", "sleep",
                  "plan_failed", "read", "model", "write", "ExhaustedRetries">>

----------------------------------------------------------------------------
(* The frame of write_fixed_files *)

\* The file a key of the decoded dict is written to
ResolvedKey(k) == Resolve(PathJoin(output_folder, k))

\* write_fixed_files has just returned
WriteReturned == pc = "write" /\ pc' = "increment"

\* C18: after write_fixed_files, every file of the working directory whose
\* path is not a key of the decoded dict still exists with unchanged content,
\* every key of the decoded dict is on disk with exactly its decoded
\* content, and an empty dict leaves the working directory unchanged.
C18_OnlyNamedFilesChange ==
    [][WriteReturned =>
        /\ \A rp \in EntriesUnder(fs, OutputDir) :
              RelPath(rp, OutputDir) \notin Range(fixed_files.keys) =>
                  rp \in DOMAIN fs' /\ fs'[rp] = fs[rp]
        /\ \A i \in 1..Len(fixed_files.keys) :
              /\ ResolvedKey(fixed_files.keys[i]) \in DOMAIN fs'
              /\ fs'[ResolvedKey(fixed_files.keys[i])] = fixed_files.vals[fixed_files.keys[i]]
        /\ (fixed_files = EmptyDict => fs' = fs)]_vars

\* The last key, in dict order, that is written to the file rp
LastKeyFor(rp) ==
    LET hits == {i \in 1..Len(fixed_files.keys) : ResolvedKey(fixed_files.keys[i]) = rp}
    IN  fixed_files.keys[CHOOSE i \in hits : \A j \in hits : j <= i]

\* C18 (amended): after write_fixed_files, every file that no key of the
\* decoded dict resolves to still exists with unchanged content, no file is
\* deleted, every file a key resolves to holds the content of the last key,
\* in dict order, that resolves to it, and an empty dict leaves the disk
\* unchanged.
C18_OnlyResolvedFilesChange ==
    [][WriteReturned =>
        LET targets == {ResolvedKey(fixed_files.keys[i]) : i \in 1..Len(fixed_files.keys)}
        IN  /\ DOMAIN fs' = DOMAIN fs \cup targets
            /\ \A rp \in DOMAIN fs \ targets : fs'[rp] = fs[rp]
            /\ \A rp \in targets : fs'[rp] = fixed_files.vals[LastKeyFor(rp)]
            /\ (fixed_files = EmptyDict => fs' = fs)]_vars

\* Two keys of one reply were written to the same file; the later one stays
C18_Witness ==
    /\ pc = "increment"
    /\ fixed_files.keys = << <<"a">>, <<".", "/", "a">> >>
    /\ fs[OutputDir \o << <<"a">> >>] = <<"v">>

----------------------------------------------------------------------------
(* Termination of main *)

\* The run is over in one of the three ways the controller names
Terminal ==
    /\ pc = "exited"
    /\ events # <<>>
    /\ Last(events) \in {"Succeeded", "ExhaustedRetries", "Fatal"}

\* C19: when every planner invocation, model call and file operation
\* returns, every run reaches Succeeded, ExhaustedRetries or a fatal abort,
\* it runs at most max_retries loop iterations on the way, and it never
\* invokes the planner again after reaching one of them.
C19_Terminates ==
    /\ <>Terminal
    /\ [](PlannerCalls <= (IF max_retries > 0 THEN max_retries ELSE 0))
    /\ [][Terminal => (Terminal' /\ PlannerCalls' = PlannerCalls)]_vars

====
